---- MODULE Spec2Model ----
(***************************************************************************)
(* A model of the tab/document state machine of rusty-editor               *)
(* (src/main.rs): the TextEditorApp fields that hold the open documents,   *)
(* and the handlers of TextEditorApp::update that change them.             *)
(*                                                                         *)
(* Strings are sequences of one-character strings, so that trim, format!,  *)
(* str::matches and str::replace are computed character by character.      *)
(* An Option<T> is a sequence of length at most one: <<>> is None, <<v>>   *)
(* is Some(v).  The file system, the file dialogs and the syntax lookup    *)
(* are external: their results are inputs of the actions.                  *)
(***************************************************************************)
EXTENDS Integers, Sequences, FiniteSets, TLC

VARIABLES
    tabs,               \* HashMap<String, FileTab>: a function on the set of keys
    open_order,         \* Vec<String>
    active_tab,         \* Option<String>
    new_file_counter,   \* usize
    show_rename,        \* bool
    rename_input,       \* String
    show_find,          \* bool
    find_input,         \* String
    found_count,        \* usize
    show_replace,       \* bool
    replace_find_input, \* String
    replace_with_input, \* String
    lastOp,             \* history: the handler that ran last, its input and outcome
    created             \* history: how many times New File was pressed

vars == <<tabs, open_order, active_tab, new_file_counter, show_rename,
          rename_input, show_find, find_input, found_count, show_replace,
          replace_find_input, replace_with_input, lastOp, created>>

session == <<tabs, open_order, active_tab>>
renameDlg == <<show_rename, rename_input>>
findDlg == <<show_find, find_input, found_count>>
replaceDlg == <<show_replace, replace_find_input, replace_with_input>>

----------------------------------------------------------------------------
(* Bounds of the model.                                                    *)

\* The tab bar holds at most this many entries (open and create stop there).
MaxTabs == 2
\* New File is pressed at most this many times.
MaxCreates == 1
\* Longest text typed into the editor or read from a file.
MaxContentLen == 1
\* The same two bounds for the specification of the documents alone.
MaxDocumentTabs == 3
MaxDocumentCreates == 2
\* Longest text of the document that find and replace are run on alone.
MaxSearchLen == 3
\* Longest text typed into the find and replace fields there.
MaxNeedleLen == 2

----------------------------------------------------------------------------
(* Option<T>                                                               *)

None == <<>>
Some(v) == <<v>>
IsSome(o) == o # <<>>
Unwrap(o) == o[1]

----------------------------------------------------------------------------
(* Strings                                                                 *)

IsWhitespace(c) == c = " "

\* str::trim: drop leading and trailing whitespace.
RECURSIVE TrimStart(_)
TrimStart(s) ==
    IF s # <<>> /\ IsWhitespace(Head(s)) THEN TrimStart(Tail(s)) ELSE s

RECURSIVE TrimEnd(_)
TrimEnd(s) ==
    IF s # <<>> /\ IsWhitespace(s[Len(s)])
    THEN TrimEnd(SubSeq(s, 1, Len(s) - 1))
    ELSE s

\* str::trim leaving the whitespace where it is.
KeepWhitespace(s) == s

Trim(s) == TrimEnd(TrimStart(s))

Digit(d) == <<"0", "1", "2", "3", "4", "5", "6", "7", "8", "9">>[d + 1]

\* Display of a usize: its decimal digits.
RECURSIVE ToDecimal(_)
ToDecimal(n) ==
    IF n < 10 THEN <<Digit(n)>> ELSE ToDecimal(n \div 10) \o <<Digit(n % 10)>>

\* format!("Untitled {}", n)
UntitledTitle(n) ==
    <<"U", "n", "t", "i", "t", "l", "e", "d", " ">> \o ToDecimal(n)

\* All strings over alphabet of length at most n.
RECURSIVE StringsUpTo(_, _)
StringsUpTo(alphabet, n) ==
    IF n = 0 THEN {<<>>}
    ELSE LET shorter == StringsUpTo(alphabet, n - 1)
         IN  shorter \cup {Append(s, c) : s \in shorter, c \in alphabet}

\* s starts with the non-empty prefix p at position i (1-based).
MatchAt(s, p, i) ==
    /\ i + Len(p) - 1 <= Len(s)
    /\ \A j \in 1..Len(p) : s[i + j - 1] = p[j]

\* str::matches(pat).count(): the matches of the searcher of pat, left to
\* right.  After a match of a non-empty pattern the search resumes at the
\* match's end.  The empty pattern matches at every character boundary,
\* the start and the end included, and the search then steps one character.
RECURSIVE MatchesFrom(_, _, _)
MatchesFrom(s, pat, i) ==
    IF pat = <<>>
    THEN IF i > Len(s) + 1 THEN 0 ELSE 1 + MatchesFrom(s, pat, i + 1)
    ELSE IF i + Len(pat) - 1 > Len(s) THEN 0
         ELSE IF MatchAt(s, pat, i)
              THEN 1 + MatchesFrom(s, pat, i + Len(pat))
              ELSE MatchesFrom(s, pat, i + 1)

\* str::matches(pat).count() with a search that resumes one character after
\* the start of a match, so that matches may overlap.
MatchesCountOverlapping(s, pat) ==
    IF pat = <<>> THEN Len(s) + 1
    ELSE Cardinality({i \in 1..Len(s) : MatchAt(s, pat, i)})

MatchesCount(s, pat) == MatchesFrom(s, pat, 1)

\* str::replace(from, to): the text between the matches of from, with to in
\* the place of each match.
RECURSIVE ReplaceFrom(_, _, _, _)
ReplaceFrom(s, from, to, i) ==
    IF from = <<>>
    THEN IF i > Len(s) THEN to
         ELSE to \o <<s[i]>> \o ReplaceFrom(s, from, to, i + 1)
    ELSE IF i > Len(s) THEN <<>>
         ELSE IF MatchAt(s, from, i)
              THEN to \o ReplaceFrom(s, from, to, i + Len(from))
              ELSE <<s[i]>> \o ReplaceFrom(s, from, to, i + 1)

StrReplace(s, from, to) == ReplaceFrom(s, from, to, 1)

----------------------------------------------------------------------------
(* Paths                                                                   *)

\* A path is a directory and a file name.
MkPath(d, n) == [dir |-> d, name |-> n]
\* Path::file_name
FileName(p) == p.name
\* Path::with_file_name
WithFileName(p, n) == [dir |-> p.dir, name |-> n]

----------------------------------------------------------------------------
(* External inputs                                                         *)

\* The directories files are opened from and saved to.
Dirs == {"dir"}

\* Names of the files the dialogs and the file browser offer.
FileNames == {<<"a", ".", "r", "s">>}

Paths == {MkPath(d, n) : d \in Dirs, n \in FileNames}

\* A file whose name is a generated title.
UntitledPaths == {MkPath(d, UntitledTitle(1)) : d \in Dirs}

\* Texts read from a file or typed into the editor.
Contents == StringsUpTo({"a"}, MaxContentLen)

\* Texts typed into the rename dialog.
RenameInputs == {<<" ">>, <<" ", "a", ".", "r", "s">>}

\* Texts typed into the find and replace dialogs.
Needles == {<<>>, <<"a">>}
Replacements == {<<>>}

\* The same inputs for the find and replace dialogs run on one document.
SearchContents == StringsUpTo({"a", "b"}, MaxSearchLen)
SearchNeedles == StringsUpTo({"a", "b"}, MaxNeedleLen)
SearchReplacements == {<<>>, <<"b">>}

EndsWith(s, suffix) ==
    /\ Len(suffix) <= Len(s)
    /\ SubSeq(s, Len(s) - Len(suffix) + 1, Len(s)) = suffix

\* SyntaxSet::find_syntax_for_file(path).ok().flatten().map(|s| s.name):
\* the syntax registered for the file's extension, if any.
SyntaxFor(path) ==
    IF EndsWith(FileName(path), <<".", "r", "s">>) THEN Some("Rust") ELSE None

----------------------------------------------------------------------------
(* HashMap and Vec                                                         *)

\* HashMap::insert: the entry under k is set, replacing one that was there.
Insert(m, k, v) == [x \in DOMAIN m \cup {k} |-> IF x = k THEN v ELSE m[x]]

\* HashMap::remove
Remove(m, k) == [x \in DOMAIN m \ {k} |-> m[x]]

\* Vec::retain(|n| n != k)
RetainNot(seq, k) == SelectSeq(seq, LAMBDA n : n # k)

\* Vec::last().cloned()
LastOf(seq) == IF seq = <<>> THEN None ELSE Some(seq[Len(seq)])

Elems(seq) == {seq[i] : i \in 1..Len(seq)}

Occurrences(seq, k) == Cardinality({i \in 1..Len(seq) : seq[i] = k})

\* The rename loop dropping the old key and pushing the new one at the end.
ReplaceKeyAtEnd(seq, old, new) == Append(RetainNot(seq, old), new)

\* for name in &mut open_order { if name == old { *name = new } }
RECURSIVE ReplaceKey(_, _, _)
ReplaceKey(seq, old, new) ==
    IF seq = <<>> THEN <<>>
    ELSE <<IF Head(seq) = old THEN new ELSE Head(seq)>>
         \o ReplaceKey(Tail(seq), old, new)

\* The active tab's name when it is set and names a registry entry:
\* if let Some(tab_name) = &self.active_tab { if let Some(tab) = self.tabs.get(tab_name)
HasActiveTab == IsSome(active_tab) /\ Unwrap(active_tab) \in DOMAIN tabs

\* A history record: the handler, the key it acted on, how it ended, and
\* whether the key it inserted under named another registry entry before.
\* A rename ends "renamed" or "fs_failed" when fs::rename was called, "ok"
\* for a tab without a path; a save ends "saved_as" when the path came from
\* the save dialog.
Op(name, key, outcome, existed) ==
    [op |-> name, key |-> key, outcome |-> outcome, existed |-> existed]

----------------------------------------------------------------------------
(* The state after TextEditorApp::default()                                *)

Init ==
    /\ tabs = <<>>
    /\ open_order = <<>>
    /\ active_tab = None
    /\ new_file_counter = 1
    /\ show_rename = FALSE
    /\ rename_input = <<>>
    /\ show_find = FALSE
    /\ find_input = <<>>
    /\ found_count = 0
    /\ show_replace = FALSE
    /\ replace_find_input = <<>>
    /\ replace_with_input = <<>>
    /\ lastOp = Op("init", None, "ok", FALSE)
    /\ created = 0

----------------------------------------------------------------------------
(* Document lifecycle                                                      *)

\* open_file(path), with the result of fs::read_to_string(path):
\* None when the read fails, Some(content) otherwise.
open_file(path, read) ==
    /\ IF IsSome(read)
       THEN LET file_name == FileName(path)
                tab == [path |-> Some(path),
                        title |-> file_name,
                        content |-> Unwrap(read),
                        syntax |-> SyntaxFor(path),
                        last_find |-> None]
            IN  /\ tabs' = Insert(tabs, file_name, tab)
                /\ open_order' = Append(open_order, file_name)
                /\ active_tab' = Some(file_name)
                /\ lastOp' = Op("open", Some(file_name), "ok",
                                file_name \in DOMAIN tabs)
       ELSE /\ UNCHANGED session
            /\ lastOp' = Op("open", Some(FileName(path)), "read_failed", FALSE)
    /\ UNCHANGED <<new_file_counter, created, renameDlg, findDlg, replaceDlg>>

\* create_new_file() without new_file_counter += 1.
CreateNewFileKeepsCounter ==
    /\ LET title == UntitledTitle(new_file_counter)
           tab == [path |-> None,
                   title |-> title,
                   content |-> <<>>,
                   syntax |-> None,
                   last_find |-> None]
       IN  /\ new_file_counter' = new_file_counter
           /\ tabs' = Insert(tabs, title, tab)
           /\ open_order' = Append(open_order, title)
           /\ active_tab' = Some(title)
           /\ lastOp' = Op("create", Some(title), "ok", title \in DOMAIN tabs)
    /\ created' = created + 1
    /\ UNCHANGED <<renameDlg, findDlg, replaceDlg>>

\* create_new_file()
create_new_file ==
    /\ LET title == UntitledTitle(new_file_counter)
           tab == [path |-> None,
                   title |-> title,
                   content |-> <<>>,
                   syntax |-> None,
                   last_find |-> None]
       IN  /\ new_file_counter' = new_file_counter + 1
           /\ tabs' = Insert(tabs, title, tab)
           /\ open_order' = Append(open_order, title)
           /\ active_tab' = Some(title)
           /\ lastOp' = Op("create", Some(title), "ok", title \in DOMAIN tabs)
    /\ created' = created + 1
    /\ UNCHANGED <<renameDlg, findDlg, replaceDlg>>

\* save_active() setting tab.path whatever fs::write returns.
SaveActiveIgnoresWriteResult(chosen, write_ok) ==
    /\ IF HasActiveTab
       THEN LET tab_name == Unwrap(active_tab)
                tab == tabs[tab_name]
                target_path == IF IsSome(tab.path) THEN tab.path ELSE chosen
            IN  IF IsSome(target_path)
                THEN /\ tabs' = [tabs EXCEPT ![tab_name].path = target_path]
                     /\ lastOp' = Op("save", active_tab,
                                     IF ~write_ok THEN "write_failed"
                                     ELSE IF IsSome(tab.path) THEN "ok"
                                     ELSE "saved_as",
                                     FALSE)
                ELSE /\ UNCHANGED tabs
                     /\ lastOp' = Op("save", active_tab, "cancelled", FALSE)
       ELSE /\ UNCHANGED tabs
            /\ lastOp' = Op("save", active_tab, "no_tab", FALSE)
    /\ UNCHANGED <<open_order, active_tab, new_file_counter, created,
                   renameDlg, findDlg, replaceDlg>>

\* save_active() that also sets the tab's title to the file name saved to.
SaveActiveTakesFileName(chosen, write_ok) ==
    /\ IF HasActiveTab
       THEN LET tab_name == Unwrap(active_tab)
                tab == tabs[tab_name]
                target_path == IF IsSome(tab.path) THEN tab.path ELSE chosen
            IN  IF IsSome(target_path)
                THEN IF write_ok
                     THEN /\ tabs' = [tabs EXCEPT
                                 ![tab_name].path = target_path,
                                 ![tab_name].title =
                                     FileName(Unwrap(target_path))]
                          /\ lastOp' = Op("save", active_tab,
                                 IF IsSome(tab.path) THEN "ok" ELSE "saved_as",
                                 FALSE)
                     ELSE /\ UNCHANGED tabs
                          /\ lastOp' = Op("save", active_tab, "write_failed", FALSE)
                ELSE /\ UNCHANGED tabs
                     /\ lastOp' = Op("save", active_tab, "cancelled", FALSE)
       ELSE /\ UNCHANGED tabs
            /\ lastOp' = Op("save", active_tab, "no_tab", FALSE)
    /\ UNCHANGED <<open_order, active_tab, new_file_counter, created,
                   renameDlg, findDlg, replaceDlg>>

\* save_active(), with the answer of the save dialog (None when cancelled,
\* asked only for a tab without a path) and whether fs::write succeeds.
save_active(chosen, write_ok) ==
    /\ IF HasActiveTab
       THEN LET tab_name == Unwrap(active_tab)
                tab == tabs[tab_name]
                target_path == IF IsSome(tab.path) THEN tab.path ELSE chosen
            IN  IF IsSome(target_path)
                THEN IF write_ok
                     THEN /\ tabs' = [tabs EXCEPT ![tab_name].path = target_path]
                          /\ lastOp' = Op("save", active_tab,
                                 IF IsSome(tab.path) THEN "ok" ELSE "saved_as",
                                 FALSE)
                     ELSE /\ UNCHANGED tabs
                          /\ lastOp' = Op("save", active_tab, "write_failed", FALSE)
                ELSE /\ UNCHANGED tabs
                     /\ lastOp' = Op("save", active_tab, "cancelled", FALSE)
       ELSE /\ UNCHANGED tabs
            /\ lastOp' = Op("save", active_tab, "no_tab", FALSE)
    /\ UNCHANGED <<open_order, active_tab, new_file_counter, created,
                   renameDlg, findDlg, replaceDlg>>

\* The tab bar: a click on the label of tab_name.
SelectTab(tab_name) ==
    /\ tab_name \in Elems(open_order)
    /\ active_tab' = Some(tab_name)
    /\ lastOp' = Op("select", Some(tab_name), "ok", FALSE)
    /\ UNCHANGED <<tabs, open_order, new_file_counter, created,
                   renameDlg, findDlg, replaceDlg>>

\* The close handler without open_order.retain.
CloseTabKeepsOrderEntry(to_close) ==
    /\ to_close \in Elems(open_order)
    /\ tabs' = Remove(tabs, to_close)
    /\ open_order' = open_order
    /\ active_tab' = IF active_tab = Some(to_close)
                     THEN LastOf(RetainNot(open_order, to_close))
                     ELSE active_tab
    /\ lastOp' = Op("close", Some(to_close),
                    IF active_tab = Some(to_close) THEN "was_active" ELSE "ok",
                    FALSE)
    /\ UNCHANGED <<new_file_counter, created, renameDlg, findDlg, replaceDlg>>

\* The close handler without the update of active_tab.
CloseTabKeepsActive(to_close) ==
    /\ to_close \in Elems(open_order)
    /\ tabs' = Remove(tabs, to_close)
    /\ open_order' = RetainNot(open_order, to_close)
    /\ active_tab' = active_tab
    /\ lastOp' = Op("close", Some(to_close),
                    IF active_tab = Some(to_close) THEN "was_active" ELSE "ok",
                    FALSE)
    /\ UNCHANGED <<new_file_counter, created, renameDlg, findDlg, replaceDlg>>

\* The close handler with open_order.first() for open_order.last().
CloseTabActivatesFirst(to_close) ==
    /\ to_close \in Elems(open_order)
    /\ tabs' = Remove(tabs, to_close)
    /\ open_order' = RetainNot(open_order, to_close)
    /\ active_tab' = IF active_tab = Some(to_close)
                     THEN IF open_order' = <<>> THEN None
                          ELSE Some(open_order'[1])
                     ELSE active_tab
    /\ lastOp' = Op("close", Some(to_close),
                    IF active_tab = Some(to_close) THEN "was_active" ELSE "ok",
                    FALSE)
    /\ UNCHANGED <<new_file_counter, created, renameDlg, findDlg, replaceDlg>>

\* The close handler leaving no tab active when the active one is closed.
CloseTabClearsActive(to_close) ==
    /\ to_close \in Elems(open_order)
    /\ tabs' = Remove(tabs, to_close)
    /\ open_order' = RetainNot(open_order, to_close)
    /\ active_tab' = IF active_tab = Some(to_close) THEN None ELSE active_tab
    /\ lastOp' = Op("close", Some(to_close),
                    IF active_tab = Some(to_close) THEN "was_active" ELSE "ok",
                    FALSE)
    /\ UNCHANGED <<new_file_counter, created, renameDlg, findDlg, replaceDlg>>

\* The tab bar: a click on the close button of to_close.
CloseTab(to_close) ==
    /\ to_close \in Elems(open_order)
    /\ tabs' = Remove(tabs, to_close)
    /\ open_order' = RetainNot(open_order, to_close)
    /\ active_tab' = IF active_tab = Some(to_close)
                     THEN LastOf(open_order')
                     ELSE active_tab
    /\ lastOp' = Op("close", Some(to_close),
                    IF active_tab = Some(to_close) THEN "was_active" ELSE "ok",
                    FALSE)
    /\ UNCHANGED <<new_file_counter, created, renameDlg, findDlg, replaceDlg>>

\* The editor: the text of the active tab is edited to content.
EditContent(content) ==
    /\ HasActiveTab
    /\ tabs' = [tabs EXCEPT ![Unwrap(active_tab)].content = content]
    /\ lastOp' = Op("edit", active_tab, "ok", FALSE)
    /\ UNCHANGED <<open_order, active_tab, new_file_counter, created,
                   renameDlg, findDlg, replaceDlg>>

----------------------------------------------------------------------------
(* The rename dialog                                                       *)

\* The Rename button of the menu bar.
RenameClick ==
    /\ IF HasActiveTab
       THEN /\ rename_input' = tabs[Unwrap(active_tab)].title
            /\ show_rename' = TRUE
       ELSE UNCHANGED renameDlg
    /\ lastOp' = Op("rename_dialog", None, "ok", FALSE)
    /\ UNCHANGED <<session, new_file_counter, created, findDlg, replaceDlg>>

\* Typing in the dialog's text field.
RenameInputEdit(text) ==
    /\ show_rename
    /\ rename_input' = text
    /\ lastOp' = Op("rename_dialog", None, "ok", FALSE)
    /\ UNCHANGED <<show_rename, session, new_file_counter, created, findDlg, replaceDlg>>

\* The renamed tab's path taking the new file name whatever fs::rename
\* returns.
RenamedPathIgnoresResult(tab, new_title, rename_ok) ==
    IF IsSome(tab.path)
    THEN Some(WithFileName(Unwrap(tab.path), new_title))
    ELSE tab.path

\* The tab's path after the OK handler's file system step: for a tab with
\* a path, the sibling path with the new file name when fs::rename
\* succeeds, the old path when it fails; a tab without a path keeps none.
RenamedPath(tab, new_title, rename_ok) ==
    IF IsSome(tab.path) /\ rename_ok
    THEN Some(WithFileName(Unwrap(tab.path), new_title))
    ELSE tab.path

\* The re-inserted tab with its syntax looked up again from the new title.
RenamedTabRecomputesSyntax(tab, new_title, new_path) ==
    [tab EXCEPT !.path = new_path,
                !.title = new_title,
                !.syntax = IF EndsWith(new_title, <<".", "r", "s">>)
                           THEN Some("Rust") ELSE None]

\* The re-inserted tab without updated_tab.title = new_title.
RenamedTabKeepsTitle(tab, new_title, new_path) ==
    [tab EXCEPT !.path = new_path]

\* updated_tab: the tab removed from under the old key, with the path the
\* file system step left and the new title.
RenamedTab(tab, new_title, new_path) ==
    [tab EXCEPT !.path = new_path, !.title = new_title]

\* The dialog's OK button, with whether fs::rename succeeds (asked only for
\* a tab with a path).  The handler sets show_rename to false, and the
\* statement after the window (self.show_rename = show_rename) sets it back
\* to the copy taken before the window was shown, which is true.
RenameOk(rename_ok) ==
    /\ show_rename
    /\ IF HasActiveTab
       THEN LET tab_name == Unwrap(active_tab)
                tab == tabs[tab_name]
                new_title == Trim(rename_input)
            IN  IF new_title # <<>>
                THEN LET new_path == RenamedPath(tab, new_title, rename_ok)
                         old_key == tab_name
                         updated_tab == RenamedTab(tab, new_title, new_path)
                     IN  /\ tabs' = Insert(Remove(tabs, old_key), new_title,
                                           updated_tab)
                         /\ open_order' = ReplaceKey(open_order, old_key,
                                                     new_title)
                         /\ active_tab' = Some(new_title)
                         /\ lastOp' = Op("rename", Some(old_key),
                                IF IsSome(tab.path)
                                THEN IF rename_ok THEN "renamed"
                                     ELSE "fs_failed"
                                ELSE "ok",
                                new_title \in DOMAIN tabs \ {old_key})
                ELSE /\ UNCHANGED session
                     /\ lastOp' = Op("rename", active_tab, "rejected", FALSE)
       ELSE /\ UNCHANGED session
            /\ lastOp' = Op("rename", active_tab, "no_tab", FALSE)
    /\ show_rename' = show_rename
    /\ UNCHANGED <<rename_input, new_file_counter, created, findDlg, replaceDlg>>

\* The dialog's Cancel button: show_rename is set to false and then back to
\* the copy taken before the window was shown.
RenameCancel ==
    /\ show_rename
    /\ show_rename' = show_rename
    /\ lastOp' = Op("rename_dialog", None, "ok", FALSE)
    /\ UNCHANGED <<rename_input, session, new_file_counter, created, findDlg, replaceDlg>>

\* The window's close button: egui clears the flag given to Window::open.
RenameWindowClose ==
    /\ show_rename
    /\ show_rename' = FALSE
    /\ lastOp' = Op("rename_dialog", None, "ok", FALSE)
    /\ UNCHANGED <<rename_input, session, new_file_counter, created, findDlg, replaceDlg>>

----------------------------------------------------------------------------
(* The find dialog                                                         *)

\* The Find button of the menu bar.
FindClick ==
    /\ show_find' = TRUE
    /\ lastOp' = Op("find_dialog", None, "ok", FALSE)
    /\ UNCHANGED <<find_input, found_count, session, new_file_counter, created,
                   renameDlg, replaceDlg>>

FindInputEdit(text) ==
    /\ show_find
    /\ find_input' = text
    /\ lastOp' = Op("find_dialog", None, "ok", FALSE)
    /\ UNCHANGED <<show_find, found_count, session, new_file_counter, created,
                   renameDlg, replaceDlg>>

\* The Count occurrences button.
CountOccurrences ==
    /\ show_find
    /\ IF HasActiveTab
       THEN /\ found_count' =
                   MatchesCount(tabs[Unwrap(active_tab)].content, find_input)
            /\ lastOp' = Op("count", active_tab, "ok", FALSE)
       ELSE /\ UNCHANGED found_count
            /\ lastOp' = Op("count", active_tab, "no_tab", FALSE)
    /\ UNCHANGED <<show_find, find_input, session, new_file_counter, created,
                   renameDlg, replaceDlg>>

FindWindowClose ==
    /\ show_find
    /\ show_find' = FALSE
    /\ lastOp' = Op("find_dialog", None, "ok", FALSE)
    /\ UNCHANGED <<find_input, found_count, session, new_file_counter, created,
                   renameDlg, replaceDlg>>

----------------------------------------------------------------------------
(* The find and replace dialog                                             *)

\* The Replace button of the menu bar.
ReplaceClick ==
    /\ show_replace' = TRUE
    /\ lastOp' = Op("replace_dialog", None, "ok", FALSE)
    /\ UNCHANGED <<replace_find_input, replace_with_input, session,
                   new_file_counter, created, renameDlg, findDlg>>

ReplaceFindEdit(text) ==
    /\ show_replace
    /\ replace_find_input' = text
    /\ lastOp' = Op("replace_dialog", None, "ok", FALSE)
    /\ UNCHANGED <<show_replace, replace_with_input, session,
                   new_file_counter, created, renameDlg, findDlg>>

ReplaceWithEdit(text) ==
    /\ show_replace
    /\ replace_with_input' = text
    /\ lastOp' = Op("replace_dialog", None, "ok", FALSE)
    /\ UNCHANGED <<show_replace, replace_find_input, session,
                   new_file_counter, created, renameDlg, findDlg>>

\* The Replace All button.
ReplaceAll ==
    /\ show_replace
    /\ IF HasActiveTab
       THEN LET tab_name == Unwrap(active_tab)
                replaced == StrReplace(tabs[tab_name].content,
                                       replace_find_input, replace_with_input)
            IN  /\ tabs' = [tabs EXCEPT ![tab_name].content = replaced]
                /\ lastOp' = Op("replace", active_tab, "ok", FALSE)
       ELSE /\ UNCHANGED tabs
            /\ lastOp' = Op("replace", active_tab, "no_tab", FALSE)
    /\ UNCHANGED <<open_order, active_tab, new_file_counter, created, replaceDlg,
                   renameDlg, findDlg>>

\* The dialog's Close button: show_replace is set to false and then back to
\* the copy taken before the window was shown.
ReplaceCloseButton ==
    /\ show_replace
    /\ show_replace' = show_replace
    /\ lastOp' = Op("replace_dialog", None, "ok", FALSE)
    /\ UNCHANGED <<replace_find_input, replace_with_input, session,
                   new_file_counter, created, renameDlg, findDlg>>

ReplaceWindowClose ==
    /\ show_replace
    /\ show_replace' = FALSE
    /\ lastOp' = Op("replace_dialog", None, "ok", FALSE)
    /\ UNCHANGED <<replace_find_input, replace_with_input, session,
                   new_file_counter, created, renameDlg, findDlg>>

----------------------------------------------------------------------------
(* Specifications                                                          *)

Reads == {None} \cup {Some(c) : c \in Contents}
SaveAnswers(paths) == {None} \cup {Some(p) : p \in paths}

\* The document handlers, with at most max_tabs entries in the tab bar and
\* at most max_creates presses of New File.
Lifecycle(max_tabs, max_creates, paths) ==
    \/ /\ Len(open_order) < max_tabs
       /\ new_file_counter <= max_creates
       /\ create_new_file
    \/ /\ Len(open_order) < max_tabs
       /\ \E path \in paths, read \in Reads : open_file(path, read)
    \/ \E chosen \in SaveAnswers(paths), write_ok \in BOOLEAN :
          save_active(chosen, write_ok)
    \/ \E tab_name \in Elems(open_order) : SelectTab(tab_name)
    \/ \E to_close \in Elems(open_order) : CloseTab(to_close)
    \/ \E content \in Contents : EditContent(content)

Renaming ==
    \/ RenameClick
    \/ \E text \in RenameInputs : RenameInputEdit(text)
    \/ \E rename_ok \in BOOLEAN : RenameOk(rename_ok)
    \/ RenameCancel
    \/ RenameWindowClose

Finding(needles) ==
    \/ FindClick
    \/ \E text \in needles : FindInputEdit(text)
    \/ CountOccurrences
    \/ FindWindowClose

\* The text after Replace All, which the specifications keep within a bound.
ReplacedLen ==
    IF HasActiveTab
    THEN Len(StrReplace(tabs[Unwrap(active_tab)].content,
                        replace_find_input, replace_with_input))
    ELSE 0

Replacing(needles, replacements, max_len) ==
    \/ ReplaceClick
    \/ \E text \in needles : ReplaceFindEdit(text)
    \/ \E text \in replacements : ReplaceWithEdit(text)
    \/ ReplacedLen <= max_len /\ ReplaceAll
    \/ ReplaceCloseButton
    \/ ReplaceWindowClose

\* Every handler.
Next ==
    \/ Lifecycle(MaxTabs, MaxCreates, UntitledPaths)
    \/ Renaming
    \/ Finding(Needles)
    \/ Replacing(Needles, Replacements, MaxContentLen)

Spec == Init /\ [][Next]_vars

\* The documents and the rename dialog alone, with a longer tab bar.
DocumentNext ==
    Lifecycle(MaxDocumentTabs, MaxDocumentCreates, Paths) \/ Renaming

DocumentSpec == Init /\ [][DocumentNext]_vars

\* The find and replace dialogs on one document: the state after
\* TextEditorApp::default() and one open_file of a file that was read.
SearchInit ==
    \E path \in Paths, content \in SearchContents :
        LET file_name == FileName(path)
        IN  /\ tabs = Insert(<<>>, file_name,
                             [path |-> Some(path),
                              title |-> file_name,
                              content |-> content,
                              syntax |-> SyntaxFor(path),
                              last_find |-> None])
            /\ open_order = <<file_name>>
            /\ active_tab = Some(file_name)
            /\ new_file_counter = 1
            /\ show_rename = FALSE
            /\ rename_input = <<>>
            /\ show_find = FALSE
            /\ find_input = <<>>
            /\ found_count = 0
            /\ show_replace = FALSE
            /\ replace_find_input = <<>>
            /\ replace_with_input = <<>>
            /\ lastOp = Op("open", Some(file_name), "ok", FALSE)
            /\ created = 0

SearchNext ==
    \/ Finding(SearchNeedles)
    \/ Replacing(SearchNeedles, SearchReplacements, MaxSearchLen)

SearchSpec == SearchInit /\ [][SearchNext]_vars

----------------------------------------------------------------------------
(* Properties                                                              *)

\* C1: after every create, open, close and rename, the open order never
\* contains the same key twice.
C1_OpenOrderHasNoDuplicates ==
    \A k \in Elems(open_order) : Occurrences(open_order, k) = 1

\* C2: after every operation the set of keys in the open order equals the
\* set of keys of the registry.
C2_OrderKeysEqualRegistryKeys == Elems(open_order) = DOMAIN tabs

\* A rename onto the key of another open document has just run, and a
\* second document is open beside the renamed one.
C2_Witness ==
    /\ lastOp.op = "rename"
    /\ lastOp.existed
    /\ Cardinality(DOMAIN tabs) = 2
    /\ Elems(open_order) = DOMAIN tabs

\* C3: in every reachable state, if the active key is set then it is a key
\* of the registry.
C3_ActiveKeyInRegistry ==
    IsSome(active_tab) => Unwrap(active_tab) \in DOMAIN tabs

\* The active tab has just been closed and another document took its place.
C3_Witness ==
    /\ lastOp.op = "close"
    /\ lastOp.outcome = "was_active"
    /\ IsSome(active_tab)
    /\ Unwrap(active_tab) \in DOMAIN tabs

\* C4: opening a file whose base name is the key of an open document leaves
\* the open order exactly as it was, replaces the registry entry under that
\* key by the loaded document and makes that key the active key.
C4_ReopenLeavesOrder ==
    [][\A path \in Paths \cup UntitledPaths, content \in Contents :
          (open_file(path, Some(content)) /\ FileName(path) \in DOMAIN tabs)
          => /\ open_order' = open_order
             /\ tabs'[FileName(path)].content = content
             /\ tabs'[FileName(path)].path = Some(path)
             /\ active_tab' = Some(FileName(path))]_vars

\* C5: renaming a document to the key of another open document leaves one
\* registry entry under that title, holding the renamed document, and the
\* open order contains that title exactly once.
C5_RenameOntoOpenKeyOnce ==
    [][(lastOp'.op = "rename" /\ lastOp'.existed)
          => LET old_key == Unwrap(lastOp'.key)
                 new_title == Unwrap(active_tab')
             IN  /\ new_title \in DOMAIN tabs'
                 /\ old_key \notin DOMAIN tabs'
                 /\ tabs'[new_title].content = tabs[old_key].content
                 /\ Occurrences(open_order', new_title) = 1]_vars

\* C6: the untitled counter starts at 1 and only increases: the n-th create
\* since session start produces the key "Untitled n", whatever operations
\* come between the creates.
C6_NthCreateIsUntitledN ==
    /\ new_file_counter = created + 1
    /\ lastOp.op = "create"
          => /\ active_tab = Some(UntitledTitle(created))
             /\ UntitledTitle(created) \in DOMAIN tabs
             /\ tabs[UntitledTitle(created)].title = UntitledTitle(created)
             /\ open_order[Len(open_order)] = UntitledTitle(created)

\* The second create, after the document of the first one was closed.
C6_Witness ==
    /\ lastOp.op = "create"
    /\ created = 2
    /\ UntitledTitle(1) \notin DOMAIN tabs
    /\ active_tab = Some(UntitledTitle(2))

\* C7: create generates a key that is not a key of an open document: it
\* adds one new empty document and never overwrites an existing one.
C7_CreateNeverOverwrites ==
    [][lastOp'.op = "create"
          => LET title == Unwrap(lastOp'.key)
             IN  /\ title \notin DOMAIN tabs
                 /\ DOMAIN tabs' = DOMAIN tabs \cup {title}
                 /\ tabs'[title].content = <<>>
                 /\ \A k \in DOMAIN tabs : tabs'[k] = tabs[k]]_vars

\* C8: after close(key), if key was the active key the active key is the
\* last element of the open order as it is after the removal, or none if
\* the open order is then empty; otherwise the active key is unchanged.
C8_CloseActivatesLast ==
    [][lastOp'.op = "close"
          => IF active_tab = lastOp'.key
             THEN active_tab' = IF open_order' = <<>> THEN None
                                ELSE Some(open_order'[Len(open_order')])
             ELSE active_tab' = active_tab]_vars

\* The active tab was closed while two other documents were open, and the
\* one that is last in the tab bar is now active.
C8_Witness ==
    /\ lastOp.op = "close"
    /\ lastOp.outcome = "was_active"
    /\ Len(open_order) = 2
    /\ open_order[1] # open_order[2]
    /\ active_tab = Some(open_order[2])

\* C9: a save that does not complete (the save dialog is cancelled, or the
\* write fails) leaves the registry, with every document's source path and
\* content, the open order and the active key as they were.
C9_FailedSaveChangesNothing ==
    [][(lastOp'.op = "save" /\ lastOp'.outcome \in {"cancelled", "write_failed"})
          => /\ tabs' = tabs
             /\ open_order' = open_order
             /\ active_tab' = active_tab]_vars

\* The write of a never-saved document to the chosen path has just failed.
C9_Witness ==
    /\ lastOp.op = "save"
    /\ lastOp.outcome = "write_failed"
    /\ IsSome(active_tab)
    /\ Unwrap(active_tab) \in DOMAIN tabs
    /\ tabs[Unwrap(active_tab)].path = None

\* C10: count_occurrences with the empty needle returns 0 for every
\* document content.
C10_EmptyNeedleCountsZero ==
    (lastOp.op = "count" /\ lastOp.outcome = "ok" /\ find_input = <<>>)
        => found_count = 0

\* C11: replace_all with an empty needle performs 0 replacements and leaves
\* the document's content unchanged, for every content and replacement.
C11_EmptyNeedleReplacesNothing ==
    [][(lastOp'.op = "replace" /\ lastOp'.outcome = "ok"
           /\ replace_find_input = <<>>)
          => tabs' = tabs]_vars

\* The start positions of the matches of the non-empty pat in s that a
\* left-to-right scan finds when it resumes after the end of each match:
\* a position is a match of the scan exactly when pat occurs there and no
\* earlier match of the scan reaches into it.
ScanMatches(s, pat) ==
    CHOOSE P \in SUBSET (1..Len(s)) :
        \A i \in 1..Len(s) :
            i \in P <=> /\ MatchAt(s, pat, i)
                        /\ \A q \in P : q < i => q + Len(pat) <= i

ScanCount(s, pat) == Cardinality(ScanMatches(s, pat))

\* s from position i on, with to in the place of the match of length n at
\* each position of P.
RECURSIVE Splice(_, _, _, _, _)
Splice(s, P, n, to, i) ==
    IF i > Len(s) THEN <<>>
    ELSE IF i \in P THEN to \o Splice(s, P, n, to, i + n)
    ELSE <<s[i]>> \o Splice(s, P, n, to, i + 1)

ScanReplaced(s, pat, to) == Splice(s, ScanMatches(s, pat), Len(pat), to, 1)

\* C12: for every content and every non-empty needle, count_occurrences
\* returns the number of matches of a left-to-right scan that resumes after
\* the end of each match (non-overlapping, case-sensitive, literal), and
\* the call leaves the content unchanged.
C12_CountIsNonOverlappingScan ==
    [][(lastOp'.op = "count" /\ lastOp'.outcome = "ok" /\ find_input # <<>>)
          => /\ found_count' =
                    ScanCount(tabs[Unwrap(active_tab)].content, find_input)
             /\ tabs' = tabs]_vars

\* The occurrences of "aa" in "aaa" have just been counted: 1.
C12_Witness ==
    /\ lastOp.op = "count"
    /\ lastOp.outcome = "ok"
    /\ find_input = <<"a", "a">>
    /\ tabs[Unwrap(active_tab)].content = <<"a", "a", "a">>
    /\ found_count = 1

\* C13: for every content, non-empty needle and replacement, replace_all
\* sets the content to the result of replacing each non-overlapping
\* left-to-right literal match of the needle by the replacement, and returns
\* the number of replacements performed, which equals count_occurrences of
\* the needle on the content before the call.  The count a handler reports
\* is found_count, the only count the session holds.
C13_ReplaceAllReturnsCount ==
    [][(lastOp'.op = "replace" /\ lastOp'.outcome = "ok"
           /\ replace_find_input # <<>>)
          => LET key == Unwrap(active_tab)
                 before == tabs[key].content
             IN  /\ tabs'[key].content =
                        ScanReplaced(before, replace_find_input,
                                     replace_with_input)
                 /\ found_count' = ScanCount(before, replace_find_input)]_vars

\* Every character of s is whitespace.
IsBlank(s) == \A i \in 1..Len(s) : IsWhitespace(s[i])

\* s without its leading and trailing whitespace: the longest part of s
\* that neither starts nor ends with whitespace.
Trimmed(s) ==
    IF IsBlank(s) THEN <<>>
    ELSE LET first == CHOOSE i \in 1..Len(s) :
                          /\ ~IsWhitespace(s[i])
                          /\ \A j \in 1..(i - 1) : IsWhitespace(s[j])
             last == CHOOSE i \in 1..Len(s) :
                         /\ ~IsWhitespace(s[i])
                         /\ \A j \in (i + 1)..Len(s) : IsWhitespace(s[j])
         IN  SubSeq(s, first, last)

\* The outcomes of an OK press that renamed the active document.
RenameDone == {"ok", "renamed", "fs_failed"}

\* C14: a rename whose new title is empty after trimming the surrounding
\* whitespace is rejected with no state change: the registry, the open
\* order and the active key are unchanged and no file system rename is
\* attempted.
C14_BlankRenameRejected ==
    [][(lastOp'.op = "rename" /\ IsBlank(rename_input))
          => /\ tabs' = tabs
             /\ open_order' = open_order
             /\ active_tab' = active_tab
             /\ lastOp'.outcome \notin RenameDone]_vars

\* OK has just been pressed with " " in the dialog for a document that has
\* a path, and the document is still under its key.
C14_Witness ==
    /\ lastOp.op = "rename"
    /\ lastOp.outcome = "rejected"
    /\ rename_input = <<" ">>
    /\ lastOp.key = active_tab
    /\ IsSome(tabs[Unwrap(active_tab)].path)

\* C15: rename is lenient towards file system failure: for a document with
\* a source path, when the external rename fails the in-memory rekey
\* (registry key, title, open order entry, active key) still happens and
\* the source path keeps its old value; when the external rename succeeds
\* the source path becomes the sibling path with the new base name.
C15_RenameLenientOnFsFailure ==
    [][(lastOp'.op = "rename" /\ HasActiveTab /\ ~IsBlank(rename_input)
           /\ IsSome(tabs[Unwrap(active_tab)].path))
          => LET old_key == Unwrap(active_tab)
                 old_path == Unwrap(tabs[old_key].path)
                 new_title == Trimmed(rename_input)
             IN  /\ lastOp'.outcome \in {"renamed", "fs_failed"}
                 /\ new_title \in DOMAIN tabs'
                 /\ new_title # old_key => old_key \notin DOMAIN tabs'
                 /\ tabs'[new_title].title = new_title
                 /\ \A i \in 1..Len(open_order) :
                        open_order[i] = old_key => open_order'[i] = new_title
                 /\ active_tab' = Some(new_title)
                 /\ tabs'[new_title].path =
                        IF lastOp'.outcome = "fs_failed"
                        THEN Some(old_path)
                        ELSE Some(WithFileName(old_path, new_title))]_vars

\* The file of the document opened from a.rs could not be renamed: the
\* document is under another title and still has the path of a.rs.
C15_Witness ==
    /\ lastOp.op = "rename"
    /\ lastOp.outcome = "fs_failed"
    /\ lastOp.key = Some(<<"a", ".", "r", "s">>)
    /\ active_tab # lastOp.key
    /\ tabs[Unwrap(active_tab)].path
           = Some(MkPath("dir", <<"a", ".", "r", "s">>))

\* C16: a successful rename of the active document from its old key to a
\* new title that is not the key of another open document keeps the open
\* order's length and the position of every entry: the entry that held the
\* old key now holds the new title, every other entry is unchanged, and the
\* active key becomes the new title.
C16_RenameKeepsPositions ==
    [][(lastOp'.op = "rename" /\ lastOp'.outcome \in RenameDone
           /\ Trimmed(rename_input) \notin DOMAIN tabs \ {Unwrap(active_tab)})
          => LET old_key == Unwrap(active_tab)
                 new_title == Trimmed(rename_input)
             IN  /\ Len(open_order') = Len(open_order)
                 /\ \A i \in 1..Len(open_order) :
                        open_order'[i] = IF open_order[i] = old_key
                                         THEN new_title
                                         ELSE open_order[i]
                 /\ active_tab' = Some(new_title)]_vars

\* The first of two documents of the tab bar has just been renamed to a
\* title no other document had, and is still the first.
C16_Witness ==
    /\ lastOp.op = "rename"
    /\ lastOp.outcome \in RenameDone
    /\ ~lastOp.existed
    /\ Len(open_order) = 2
    /\ open_order[1] # open_order[2]
    /\ active_tab = Some(open_order[1])
    /\ lastOp.key # active_tab
    /\ lastOp.key # Some(open_order[2])

\* C17: a successful save of a never-saved document to a chosen path sets
\* its source path to that path and changes nothing else: the document's
\* key and title, its content, the open order and the active key stay as
\* they were, even when the chosen path's base name differs from the title.
C17_SaveAsSetsOnlyPath ==
    [][\A chosen \in Paths, key \in DOMAIN tabs :
          (/\ save_active(Some(chosen), TRUE)
           /\ active_tab = Some(key)
           /\ tabs[key].path = None)
          => /\ tabs' = [tabs EXCEPT ![key].path = Some(chosen)]
             /\ open_order' = open_order
             /\ active_tab' = active_tab]_vars

\* The document "Untitled 1" has just been saved to a.rs: it is still
\* titled "Untitled 1".
C17_Witness ==
    /\ lastOp.op = "save"
    /\ lastOp.outcome = "saved_as"
    /\ active_tab = Some(UntitledTitle(1))
    /\ tabs[UntitledTitle(1)].title = UntitledTitle(1)
    /\ tabs[UntitledTitle(1)].path
           = Some(MkPath("dir", <<"a", ".", "r", "s">>))

\* C18: a document keeps its identity across rename: the registry entry
\* under the new title after a rename has the same content and the same
\* language hint as the entry under the old key before the rename, and the
\* old key is no longer in the registry when the new title differs from it.
C18_RenameKeepsContentAndSyntax ==
    [][(lastOp'.op = "rename" /\ lastOp'.outcome \in RenameDone)
          => LET old_key == Unwrap(active_tab)
                 new_title == Trimmed(rename_input)
             IN  /\ new_title \in DOMAIN tabs'
                 /\ tabs'[new_title].content = tabs[old_key].content
                 /\ tabs'[new_title].syntax = tabs[old_key].syntax
                 /\ new_title # old_key => old_key \notin DOMAIN tabs']_vars

\* The document created as "Untitled 1", with the text "a", has just been
\* renamed to a.rs: it has its text and still no syntax.
C18_Witness ==
    /\ lastOp.op = "rename"
    /\ lastOp.key = Some(UntitledTitle(1))
    /\ active_tab = Some(<<"a", ".", "r", "s">>)
    /\ tabs[<<"a", ".", "r", "s">>].content = <<"a">>
    /\ tabs[<<"a", ".", "r", "s">>].syntax = None
    /\ UntitledTitle(1) \notin DOMAIN tabs

\* C19: in every reachable state, every registry entry's title equals the
\* key it is stored under.
C19_TitleEqualsKey == \A k \in DOMAIN tabs : tabs[k].title = k

\* A document that was saved to a.rs as "Untitled 1" has just been renamed
\* to the title of another open document, while a third one is open.
C19_Witness ==
    /\ lastOp.op = "rename"
    /\ lastOp.key = Some(UntitledTitle(1))
    /\ lastOp.existed
    /\ active_tab = Some(UntitledTitle(2))
    /\ tabs[UntitledTitle(2)].title = UntitledTitle(2)
    /\ tabs[UntitledTitle(2)].path
           = Some(MkPath("dir", <<"a", ".", "r", "s">>))
    /\ Cardinality(DOMAIN tabs) = 2

\* C20: in every reachable state the active key is absent if and only if
\* the registry is empty.
C20_ActiveAbsentIffRegistryEmpty == (active_tab = None) <=> (DOMAIN tabs = {})

\* The active tab has just been closed, and the tab that is active now has
\* its key twice in the open order.
C20_Witness ==
    /\ lastOp.op = "close"
    /\ lastOp.outcome = "was_active"
    /\ IsSome(active_tab)
    /\ Occurrences(open_order, Unwrap(active_tab)) = 2
    /\ DOMAIN tabs = {Unwrap(active_tab)}

====
